---- MODULE Spec2Model ----
(***************************************************************************)
(* Model of the Field accessor of package structs (field.go).              *)
(*                                                                         *)
(* A Field pairs a reflect.Value (a handle on one struct field's storage)  *)
(* with the reflect.StructField describing it.  The model keeps the        *)
(* caller's record and the cells its pointer fields refer to in `heap`,    *)
(* the Field objects the caller currently holds in `fields`, and the       *)
(* outcome of the last operation in `res`.                                 *)
(***************************************************************************)
EXTENDS Integers, Sequences, FiniteSets, TLC

VARIABLES heap, fields, res

vars == <<heap, fields, res>>

(* The number of Field objects the caller holds at the same time. *)
MaxFields == 2

(***************************************************************************)
(* Types, kinds and values                                                 *)
(***************************************************************************)

(* reflect.Kind of each type of the model. "nil" is the type of a nil      *)
(* interface, whose reflect.Value is the zero Value of kind Invalid.       *)
TypeKind(t) ==
  CASE t = "int8"    -> "int8"
    [] t = "MyInt8"  -> "int8"
    [] t = "uint8"   -> "uint8"
    [] t = "float64" -> "float64"
    [] t = "string"  -> "string"
    [] t = "Inner"   -> "struct"
    [] t = "Other"   -> "struct"
    [] t = "Flat"    -> "struct"
    [] t = "Nums"    -> "struct"
    [] t = "Ptrs"    -> "struct"
    [] t = "Nest"    -> "struct"
    [] t = "PtrNest" -> "struct"
    [] t = "*int8"   -> "ptr"
    [] t = "*Inner"  -> "ptr"
    [] OTHER         -> "invalid"

(* A value of type t: n is the number of a numeric value or the address    *)
(* held by a pointer (0 is nil), s the text of a string, fs the fields of  *)
(* a struct.                                                               *)
Num(t, n) == [t |-> t, n |-> n, s |-> "", fs |-> <<>>]

Str(s) == [t |-> "string", n |-> 0, s |-> s, fs |-> <<>>]

Struct(t, fs) == [t |-> t, n |-> 0, s |-> "", fs |-> fs]

NilIface == Num("nil", 0)

InnerVal(x, y) == Struct("Inner", [X |-> Num("int8", x), y |-> Num("int8", y)])

(* reflect.StructField of the declared fields of each struct type. *)
SF(name, tag, anon, pkg, typ) ==
  [Name |-> name, Tag |-> tag, Anonymous |-> anon, PkgPath |-> pkg, Type |-> typ]

NoTag == [k \in {} |-> ""]

Decl(t) ==
  CASE t = "Flat" ->
         << SF("A", [structs |-> "a", json |-> "-"], FALSE, "", "int8"),
            SF("b", NoTag, FALSE, "structs", "int8") >>
    [] t = "Nums" ->
         << SF("U", [structs |-> "u"], FALSE, "", "uint8"),
            SF("F", NoTag, FALSE, "", "float64") >>
    [] t = "Ptrs" ->
         << SF("P", [structs |-> "p"], FALSE, "", "*int8"),
            SF("q", NoTag, FALSE, "structs", "*int8") >>
    [] t = "Nest" ->
         << SF("Inner", NoTag, TRUE, "", "Inner") >>
    [] t = "PtrNest" ->
         << SF("Q", [structs |-> "-"], FALSE, "", "*Inner") >>
    [] t = "Inner" ->
         << SF("X", [json |-> "x"], FALSE, "", "int8"),
            SF("y", NoTag, FALSE, "structs", "int8") >>
    [] OTHER -> << >>

Names == {"A", "b", "U", "F", "P", "q", "Inner", "Q", "X", "y", "Missing"}

(* The names the caller looks up in a nested record. *)
Lookups == {"X", "y", "Missing"}

TagKeys == {"structs", "json", "xml"}

(* reflect.Type.FieldByName: the declared field of that name, if any. *)
HasField(t, name) == \E k \in 1..Len(Decl(t)) : Decl(t)[k].Name = name

FieldByNameT(t, name) ==
  Decl(t)[CHOOSE k \in 1..Len(Decl(t)) : Decl(t)[k].Name = name]

(* reflect.Zero(t).Interface() *)
RECURSIVE ZeroOf(_)
ZeroOf(t) ==
  IF TypeKind(t) = "struct" /\ Len(Decl(t)) > 0
  THEN Struct(t, [nm \in {Decl(t)[k].Name : k \in 1..Len(Decl(t))} |->
                    ZeroOf(FieldByNameT(t, nm).Type)])
  ELSE IF t = "string" THEN Str("") ELSE Num(t, 0)

(* reflect.StructTag.Get: the value of the key, "" when the tag lacks it. *)
TagGet(tag, key) == IF key \in DOMAIN tag THEN tag[key] ELSE ""

(* Width conversions done by reflect's numeric stores. *)
Int8(n) == ((n + 128) % 256) - 128

Uint8(n) == n % 256

(***************************************************************************)
(* reflect.Value                                                           *)
(*   valid  FALSE for the zero Value (kind Invalid)                        *)
(*   addr   flagAddr: the Value designates storage in the heap, at         *)
(*          heap[root] followed along path; otherwise it carries its own   *)
(*          copy in data                                                   *)
(*   ro     flagRO: obtained through a non-exported field                  *)
(***************************************************************************)
NoPath == << >>

ZeroValue ==
  [valid |-> FALSE, addr |-> FALSE, ro |-> FALSE, root |-> 0, path |-> NoPath,
   data |-> NilIface]

Place(root, path, ro) ==
  [valid |-> TRUE, addr |-> TRUE, ro |-> ro, root |-> root, path |-> path,
   data |-> NilIface]

Copy(x, ro) ==
  [valid |-> TRUE, addr |-> FALSE, ro |-> ro, root |-> 0, path |-> NoPath,
   data |-> x]

RECURSIVE Read(_, _)
Read(v, path) ==
  IF path = << >> THEN v ELSE Read(v.fs[Head(path)], Tail(path))

RECURSIVE Write(_, _, _)
Write(v, path, x) ==
  IF path = << >> THEN x
  ELSE [v EXCEPT !.fs[Head(path)] = Write(v.fs[Head(path)], Tail(path), x)]

(* The value a reflect.Value currently holds. *)
Data(h, rv) ==
  IF ~rv.valid THEN NilIface
  ELSE IF rv.addr THEN Read(h[rv.root], rv.path) ELSE rv.data

KindV(h, rv) == IF rv.valid THEN TypeKind(Data(h, rv).t) ELSE "invalid"

CanSet(rv) == rv.valid /\ rv.addr /\ ~rv.ro

(* reflect.ValueOf(x) for an interface value x. *)
ValueOf(x) == IF x.t = "nil" THEN ZeroValue ELSE Copy(x, FALSE)

(* Value.Elem of a pointer: the pointee is addressable, flagRO is kept. *)
Elem(h, rv) ==
  IF Data(h, rv).n = 0 THEN ZeroValue ELSE Place(Data(h, rv).n, NoPath, rv.ro)

Indirect(h, rv) == IF KindV(h, rv) = "ptr" THEN Elem(h, rv) ELSE rv

(* Value.FieldByName on a struct Value: the field shares the struct's      *)
(* addressability and is read-only when it is not exported.                *)
FieldByNameV(h, rv, name) ==
  LET sf == FieldByNameT(Data(h, rv).t, name)
      ro == rv.ro \/ sf.PkgPath # ""
  IN IF rv.addr THEN Place(rv.root, Append(rv.path, name), ro)
     ELSE Copy(rv.data.fs[name], ro)

(* reflect.DeepEqual: same type, equal content; pointers are equal when    *)
(* they are the same pointer or point to deeply equal values.              *)
RECURSIVE DeepEqual(_, _, _)
DeepEqual(h, a, b) ==
  /\ a.t = b.t
  /\ CASE TypeKind(a.t) = "ptr" ->
            \/ a.n = b.n
            \/ a.n # 0 /\ b.n # 0 /\ DeepEqual(h, h[a.n], h[b.n])
       [] TypeKind(a.t) = "struct" ->
            \A nm \in DOMAIN a.fs : DeepEqual(h, a.fs[nm], b.fs[nm])
       [] OTHER -> a.n = b.n /\ a.s = b.s

(***************************************************************************)
(* Field: value is the handle, field the descriptor.  `of` records which   *)
(* field of which record the Field was made for: rec is "s" for the        *)
(* caller's record and "copy" for a copy the caller passed by value.       *)
(***************************************************************************)
NoField ==
  [value |-> ZeroValue, field |-> SF("", NoTag, FALSE, "", "nil"),
   of |-> [rec |-> "none", path |-> NoPath]]

Tag(f, key) == TagGet(f.field.Tag, key)

IsEmbedded(f) == f.field.Anonymous

IsExported(f) == f.field.PkgPath = ""

Name(f) == f.field.Name

Kind(h, f) == KindV(h, f.value)

(* Variant: the read does not look at the export flag. *)
Value_Unchecked(h, f) == [out |-> "ok", val |-> Data(h, f.value)]

(* Value.Interface panics on a Value obtained through a non-exported field *)
Value(h, f) ==
  IF f.value.ro \/ ~f.value.valid THEN [out |-> "panic", val |-> NilIface]
  ELSE [out |-> "ok", val |-> Data(h, f.value)]

IsZero(h, f) ==
  LET zero == ZeroOf(Data(h, f.value).t)
      current == Value(h, f)
  IN IF current.out = "panic" THEN [out |-> "panic", val |-> FALSE]
     ELSE [out |-> "ok", val |-> DeepEqual(h, current.val, zero)]

(***************************************************************************)
(* Arguments of Set (val interface{}): a value x behind ind levels of      *)
(* caller-owned pointers; nilp says that the outermost pointer is nil.     *)
(***************************************************************************)
Val(x) == [ind |-> 0, nilp |-> FALSE, x |-> x]

Ref(a) == [ind |-> a.ind + 1, nilp |-> FALSE, x |-> a.x]

NilPtr(t) == [ind |-> 1, nilp |-> TRUE, x |-> Num(t, 0)]

(* reflect.ValueOf(val) and the Kind, Elem and validity of the result. *)
GivenValid(g) == g.ind > 0 \/ g.x.t # "nil"

GivenKind(g) ==
  IF ~GivenValid(g) THEN "invalid"
  ELSE IF g.ind > 0 THEN "ptr" ELSE TypeKind(g.x.t)

GivenElem(g) == IF g.nilp THEN Val(NilIface) ELSE [g EXCEPT !.ind = @ - 1]

(* The type of the given Value, as a pair of pointer depth and base type. *)
GivenType(g) == <<g.ind, g.x.t>>

(* Variant: the store goes to a copy and is lost. *)
Store_Lost(h, v, x) == h

(* Storing x in the place v designates. *)
Store(h, v, x) == [h EXCEPT ![v.root] = Write(@, v.path, x)]

(* Variant: settability is tested before export. *)
checkForSet_SettableFirst(f, h, v, val) ==
  IF ~CanSet(v) THEN [given |-> Val(NilIface), err |-> "errNotSettable"]
  ELSE IF ~IsExported(f) THEN [given |-> Val(NilIface), err |-> "errNotExported"]
  ELSE IF GivenKind(val) = "ptr"
       THEN [given |-> GivenElem(val), err |-> "nil"]
       ELSE [given |-> val, err |-> "nil"]

(* Variant: settability is not tested. *)
checkForSet_NoCanSet(f, h, v, val) ==
  IF ~IsExported(f) THEN [given |-> Val(NilIface), err |-> "errNotExported"]
  ELSE IF GivenKind(val) = "ptr"
       THEN [given |-> GivenElem(val), err |-> "nil"]
       ELSE [given |-> val, err |-> "nil"]

(* Variant: a given pointer is not dereferenced. *)
checkForSet_NoElem(f, h, v, val) ==
  IF ~IsExported(f) THEN [given |-> Val(NilIface), err |-> "errNotExported"]
  ELSE IF ~CanSet(v) THEN [given |-> Val(NilIface), err |-> "errNotSettable"]
  ELSE [given |-> val, err |-> "nil"]

checkForSet(f, h, v, val) ==
  IF ~IsExported(f) THEN [given |-> Val(NilIface), err |-> "errNotExported"]
  ELSE IF ~CanSet(v) THEN [given |-> Val(NilIface), err |-> "errNotSettable"]
  ELSE IF GivenKind(val) = "ptr"
       THEN [given |-> GivenElem(val), err |-> "nil"]
       ELSE [given |-> val, err |-> "nil"]

(* reflect's Value.Set panics unless v can be set, the given Value is      *)
(* valid and its type is assignable to the type of v.                      *)
(* Variant: the kinds are not compared before the store. *)
Set_NoKindCheck(h, f, val) ==
  LET v == Indirect(h, f.value)
      c == checkForSet(f, h, v, val)
  IN IF c.err # "nil" THEN [out |-> c.err, heap |-> h]
     ELSE IF ~CanSet(v) \/ GivenType(c.given) # <<0, Data(h, v).t>>
          THEN [out |-> "panic", heap |-> h]
     ELSE [out |-> "nil", heap |-> Store(h, v, c.given.x)]

(* Variant: the store happens before the kinds are compared. *)
Set_StoreFirst(h, f, val) ==
  LET v == Indirect(h, f.value)
      c == checkForSet(f, h, v, val)
  IN IF c.err # "nil" THEN [out |-> c.err, heap |-> h]
     ELSE IF KindV(h, v) # GivenKind(c.given)
          THEN [out |-> "wrongKind", heap |-> Store(h, v, c.given.x)]
     ELSE IF ~CanSet(v) \/ GivenType(c.given) # <<0, Data(h, v).t>>
          THEN [out |-> "panic", heap |-> h]
     ELSE [out |-> "nil", heap |-> Store(h, v, c.given.x)]

Set(h, f, val) ==
  LET v == Indirect(h, f.value)
      c == checkForSet(f, h, v, val)
  IN IF c.err # "nil" THEN [out |-> c.err, heap |-> h]
     ELSE IF KindV(h, v) # GivenKind(c.given)
          THEN [out |-> "wrongKind", heap |-> h]
     ELSE IF ~CanSet(v) \/ GivenType(c.given) # <<0, Data(h, v).t>>
          THEN [out |-> "panic", heap |-> h]
     ELSE [out |-> "nil", heap |-> Store(h, v, c.given.x)]

(* reflect's Value.SetInt panics unless v can be set and is of a signed    *)
(* integer kind, and stores the number converted to the width of the kind. *)
(* Variant: the kind is checked and a mismatch is returned as an error. *)
SetInt_Checked(h, f, val) ==
  LET v == Indirect(h, f.value)
      c == checkForSet(f, h, v, Val(Num("int64", val)))
  IN IF c.err # "nil" THEN [out |-> c.err, heap |-> h]
     ELSE IF KindV(h, v) # "int8" THEN [out |-> "wrongKind", heap |-> h]
     ELSE [out |-> "nil", heap |-> Store(h, v, Num(Data(h, v).t, Int8(val)))]

SetInt(h, f, val) ==
  LET v == Indirect(h, f.value)
      c == checkForSet(f, h, v, Val(Num("int64", val)))
  IN IF c.err # "nil" THEN [out |-> c.err, heap |-> h]
     ELSE IF ~CanSet(v) \/ KindV(h, v) # "int8"
          THEN [out |-> "panic", heap |-> h]
     ELSE [out |-> "nil", heap |-> Store(h, v, Num(Data(h, v).t, Int8(val)))]

SetFloat(h, f, val) ==
  LET v == Indirect(h, f.value)
      c == checkForSet(f, h, v, Val(Num("float64", val)))
  IN IF c.err # "nil" THEN [out |-> c.err, heap |-> h]
     ELSE IF ~CanSet(v) \/ KindV(h, v) # "float64"
          THEN [out |-> "panic", heap |-> h]
     ELSE [out |-> "nil", heap |-> Store(h, v, Num(Data(h, v).t, val))]

SetUint(h, f, val) ==
  LET v == Indirect(h, f.value)
      c == checkForSet(f, h, v, Val(Num("uint64", val)))
  IN IF c.err # "nil" THEN [out |-> c.err, heap |-> h]
     ELSE IF ~CanSet(v) \/ KindV(h, v) # "uint8"
          THEN [out |-> "panic", heap |-> h]
     ELSE [out |-> "nil", heap |-> Store(h, v, Num(Data(h, v).t, Uint8(val)))]

(* strctVal: the struct Value of an interface value, following pointers;   *)
(* ZeroValue stands for its panic on anything that is not a struct.        *)
RECURSIVE strctVal(_, _)
strctVal(h, v) ==
  IF KindV(h, v) = "ptr" THEN strctVal(h, Elem(h, v))
  ELSE IF KindV(h, v) = "struct" THEN v ELSE ZeroValue

FieldOk(h, f, name) ==
  LET got == Value(h, f)
      v   == strctVal(h, ValueOf(got.val))
  IN IF got.out = "panic" \/ ~v.valid THEN [out |-> "panic", field |-> NoField]
     ELSE IF ~HasField(Data(h, v).t, name)
          THEN [out |-> "notfound", field |-> NoField]
     ELSE [out |-> "found",
           field |-> [field |-> FieldByNameT(Data(h, v).t, name),
                      value |-> FieldByNameV(h, v, name),
                      of |-> [f.of EXCEPT !.path = Append(@, name)]]]

(* Variant: a missing name is reported instead of being fatal. *)
Field_NoPanic(h, f, name) == FieldOk(h, f, name)

Field(h, f, name) ==
  LET r == FieldOk(h, f, name)
  IN IF r.out # "found" THEN [out |-> "panic", field |-> NoField] ELSE r

(***************************************************************************)
(* The enumeration of a record's fields by the package's constructor:      *)
(* the Field of the declared field `name` of the struct at `base` inside   *)
(* the caller's record, passed by pointer (byRef) or as a copy.            *)
(***************************************************************************)
NewField(h, base, name, byRef) ==
  LET sv == IF byRef THEN Place(1, base, FALSE)
            ELSE Copy(Read(h[1], base), FALSE)
  IN [field |-> FieldByNameT(Data(h, sv).t, name),
      value |-> FieldByNameV(h, sv, name),
      of |-> [rec |-> IF byRef THEN "s" ELSE "copy",
              path |-> Append(base, name)]]

(***************************************************************************)
(* Inputs                                                                  *)
(***************************************************************************)
(* The record types the caller uses: heap[1] is the caller's record,       *)
(* heap[2] the int8 cell and heap[3] the Inner cell that its pointer       *)
(* fields can refer to.                                                    *)
PtrsVal(p, q) ==
  Struct("Ptrs", [P |-> Num("*int8", p), q |-> Num("*int8", q)])

PtrNestVal(r) == Struct("PtrNest", [Q |-> Num("*Inner", r)])

Records ==
  {ZeroOf("Flat"), ZeroOf("Nums"), ZeroOf("Nest")}
    \cup {PtrsVal(p, q) : p \in {0, 2}, q \in {0, 2}}
    \cup {PtrNestVal(r) : r \in {0, 3}}

(* The struct places of the caller's record a Field can be made from. *)
Bases(h) == {<< >>} \cup (IF h[1].t = "Nest" THEN {<<"Inner">>} ELSE {})

Plain ==
  {NilIface, Num("int8", 1), Num("MyInt8", 1), Str("a"), InnerVal(1, 0),
   Struct("Other", << >>)}

SetArgs ==
  {Val(x) : x \in Plain}
    \cup {Ref(Val(x)) : x \in {Num("int8", 1), InnerVal(1, 0)}}
    \cup {Ref(Ref(Val(Num("int8", 1)))), NilPtr("int8")}

NumArgs == {1, 300}

NoArg == Val(NilIface)

Result(op, f, arg, name, out, got) ==
  [op |-> op, f |-> f, arg |-> arg, name |-> name, out |-> out, got |-> got]

(***************************************************************************)
(* State machine                                                           *)
(***************************************************************************)
Init ==
  /\ \E r \in Records :
       heap = [a \in 1..3 |-> CASE a = 1 -> r
                                [] a = 2 -> Num("int8", 0)
                                [] a = 3 -> InnerVal(0, 0)]
  /\ fields = {}
  /\ res = Result("init", NoField, NoArg, "", "nil", NoField)

New(base, name, byRef) ==
  /\ Cardinality(fields) < MaxFields
  /\ base \in Bases(heap)
  /\ HasField(Read(heap[1], base).t, name)
  /\ LET f == NewField(heap, base, name, byRef)
     IN /\ fields' = fields \cup {f}
        /\ res' = Result("New", f, NoArg, name, "nil", f)
  /\ UNCHANGED heap

DoSet(f, val) ==
  /\ f \in fields
  /\ LET o == Set(heap, f, val)
     IN /\ heap' = o.heap
        /\ res' = Result("Set", f, val, "", o.out, NoField)
  /\ UNCHANGED fields

DoSetInt(f, n) ==
  /\ f \in fields
  /\ LET o == SetInt(heap, f, n)
     IN /\ heap' = o.heap
        /\ res' = Result("SetInt", f, Val(Num("int64", n)), "", o.out, NoField)
  /\ UNCHANGED fields

DoSetFloat(f, n) ==
  /\ f \in fields
  /\ LET o == SetFloat(heap, f, n)
     IN /\ heap' = o.heap
        /\ res' = Result("SetFloat", f, Val(Num("float64", n)), "", o.out, NoField)
  /\ UNCHANGED fields

DoSetUint(f, n) ==
  /\ f \in fields
  /\ LET o == SetUint(heap, f, n)
     IN /\ heap' = o.heap
        /\ res' = Result("SetUint", f, Val(Num("uint64", n)), "", o.out, NoField)
  /\ UNCHANGED fields

DoFieldOk(f, name) ==
  /\ f \in fields
  /\ LET o == FieldOk(heap, f, name)
     IN /\ o.out = "found" => Cardinality(fields) < MaxFields
        /\ fields' = IF o.out = "found" THEN fields \cup {o.field} ELSE fields
        /\ res' = Result("FieldOk", f, NoArg, name, o.out, o.field)
  /\ UNCHANGED heap

DoField(f, name) ==
  /\ f \in fields
  /\ LET o == Field(heap, f, name)
     IN /\ o.out = "found" => Cardinality(fields) < MaxFields
        /\ fields' = IF o.out = "found" THEN fields \cup {o.field} ELSE fields
        /\ res' = Result("Field", f, NoArg, name, o.out, o.field)
  /\ UNCHANGED heap

(* The caller lets go of a Field. *)
Drop(f) ==
  /\ f \in fields
  /\ fields' = fields \ {f}
  /\ res' = Result("Drop", NoField, NoArg, "", "nil", NoField)
  /\ UNCHANGED heap

Next ==
  \/ \E base \in {<< >>, <<"Inner">>}, name \in Names, byRef \in BOOLEAN :
       New(base, name, byRef)
  \/ \E f \in fields, val \in SetArgs : DoSet(f, val)
  \/ \E f \in fields, n \in NumArgs : DoSetInt(f, n)
  \/ \E f \in fields, n \in NumArgs : DoSetFloat(f, n)
  \/ \E f \in fields, n \in NumArgs : DoSetUint(f, n)
  \/ \E f \in fields, name \in Lookups : DoFieldOk(f, name)
  \/ \E f \in fields, name \in Lookups : DoField(f, name)
  \/ \E f \in fields : Drop(f)

Spec == Init /\ [][Next]_vars

(***************************************************************************)
(* Properties                                                              *)
(***************************************************************************)

C6_ReadsRequireExport ==
  \A f \in fields :
    IF IsExported(f)
    THEN /\ Value(heap, f).out = "ok"
         /\ IsZero(heap, f).out = "ok"
         /\ IsZero(heap, f).val <=> (Value(heap, f).val = ZeroOf(f.field.Type))
    ELSE Value(heap, f).out = "panic" /\ IsZero(heap, f).out = "panic"

C6_Witness ==
  \E f, g \in fields :
    /\ ~IsExported(f) /\ Value(heap, f).out = "panic"
    /\ IsExported(g) /\ IsZero(heap, g) = [out |-> "ok", val |-> FALSE]

(* C7: after a setter has returned no error on a Field of the caller's     *)
(* record, every other exported Field held for the same field of that      *)
(* record yields, through Value(), what the written Field yields.          *)
C7_AliasVisibility ==
  (/\ res.op \in {"Set", "SetInt", "SetFloat", "SetUint"}
   /\ res.out = "nil"
   /\ res.f.of.rec = "s")
  => \A g \in fields :
       (g.of = res.f.of /\ IsExported(g))
         => Value(heap, g) = Value(heap, res.f)

(* C8: the descriptor of a held Field is the declared one at all times, no *)
(* operation other than letting go of a Field takes a held Field away or   *)
(* alters it, and storage changes only in a step of a setter that returns  *)
(* no error.                                                               *)
C8_DescriptorImmutable ==
  /\ [](\A f \in fields :
          LET owner == IF Len(f.of.path) = 1 THEN heap[1].t ELSE "Inner"
              name  == f.of.path[Len(f.of.path)]
          IN /\ Name(f) = name
             /\ IsExported(f) = (FieldByNameT(owner, name).PkgPath = "")
             /\ IsEmbedded(f) = FieldByNameT(owner, name).Anonymous
             /\ \A key \in TagKeys :
                  Tag(f, key) = TagGet(FieldByNameT(owner, name).Tag, key))
  /\ [][/\ res'.op # "Drop" => fields \subseteq fields'
        /\ heap' # heap =>
             /\ res'.op \in {"Set", "SetInt", "SetFloat", "SetUint"}
             /\ res'.out = "nil"]_vars

C8_Witness ==
  /\ res.op = "SetUint"
  /\ res.out = "nil"
  /\ res.f \in fields
  /\ Name(res.f) = "U"
  /\ Tag(res.f, "structs") = "u"
  /\ Value(heap, res.f).val.n = 44

C10_SingleDereference ==
  [][/\ (res'.op = "Set" /\ res'.arg.ind = 1 /\ ~res'.arg.nilp)
          => LET o == Set(heap, res'.f, Val(res'.arg.x))
             IN res'.out = o.out /\ heap' = o.heap
     /\ (/\ res'.op = "Set"
         /\ res'.arg.ind = 2
         /\ IsExported(res'.f)
         /\ CanSet(res'.f.value)
         /\ Kind(heap, res'.f) = TypeKind(res'.arg.x.t))
          => (res'.out = "wrongKind" /\ heap' = heap)]_vars

C10_Witness ==
  /\ res.op = "Set"
  /\ res.arg = Ref(Val(Num("int8", 1)))
  /\ res.out = "nil"
  /\ IsExported(res.f)
  /\ Kind(heap, res.f) = "int8"
  /\ Value(heap, res.f).val = Num("int8", 1)

====
